---- MODULE Spec2Model ----
(***************************************************************************)
(* Simulated annealing for fixed-size vertex cover.                        *)
(*                                                                         *)
(* Two functions are modelled:                                             *)
(*   improved_simulated_annealing_VertexCover  (degree-biased node_in,     *)
(*       cooling  temp *= cooling_rate * (1 - i / max_iteration),          *)
(*       early_stop on the counter no_improvement_iterations)              *)
(*   simulated_annealing_VertexCover           (uniform node_in,           *)
(*       cooling  temp *= cooling_rate, no early stop)                     *)
(*                                                                         *)
(* One call of the function is one behaviour: the arguments are chosen in  *)
(* Init, Initialize is the code before the loop, every loop iteration is   *)
(* one step, Return is the return statement.  An exception raised by the   *)
(* code ends the call in pc = "error".                                     *)
(***************************************************************************)
EXTENDS Integers, FiniteSets, Sequences, TLC

\* ------------------------------------------------------------ bounds
\* Largest number of vertices of the enumerated graphs.
MaxN == 3
\* Largest max_iteration of the enumerated calls.
MaxIter == 3
\* Largest early_stop of the enumerated calls.
MaxEarlyStop == 2
\* Significant bits of a Python float (an IEEE-754 double).
MantBits == 53
\* Exponent of the smallest positive double, 2^-1074.
MinExp == -1074
\* A mantissa is kept as 4 limbs of 14 bits, least significant first, so
\* that every intermediate value of the arithmetic stays below 2^31.
LimbBits == 14
Limb == 2^LimbBits

\* ------------------------------------------------------------ defaults
DefaultInitialTemp == 1500
DefaultMaxIteration == 1500
DefaultEarlyStop == 150

VARIABLES
    variant,                    \* "improved" | "baseline": the function called
    graph,                      \* [n |-> N, edges |-> set of <<u, v>>, u < v]
    Max_Node,
    initial_temp,
    cooling_rate,               \* [num, den]: the rational num / den
    max_iteration,
    early_stop,
    pc,                         \* "start" | "loop" | "done" | "error"
    current_solution,
    best_solution,
    best_covered,
    current_temp,               \* a Float (below)
    no_improvement_iterations,
    i,                          \* index of the next loop iteration
    node_out,
    node_in,
    new_solution,
    new_covered,
    last,                       \* what the last iteration did
    stale,                      \* history: iterations run since best_covered last
                                \* rose, counted up to StaleCap
    error,                      \* the exception that ended the call, or "none"
    result                      \* the returned pair

args == <<variant, graph, Max_Node, initial_temp, cooling_rate, max_iteration, early_stop>>
locals == <<node_out, node_in, new_solution, new_covered>>
search == <<current_solution, best_solution, best_covered, current_temp,
            no_improvement_iterations>>
vars == <<args, pc, search, i, locals, last, stale, error, result>>

\* ------------------------------------------------------------ graphs
Pairs(n) == {p \in (1..n) \X (1..n) : p[1] < p[2]}

\* nodes = list(graph.nodes): the vertices 1..n in this order.
nodes(g) == 1..g.n

\* graph.degree[n] of a simple graph.
degree(g, v) == Cardinality({e \in g.edges : e[1] = v \/ e[2] = v})

\* The star with center 1 and leaves 2..6.
StarGraph == [n |-> 6, edges |-> {<<1, l>> : l \in 2..6}]

\* The 4-cycle (1,2),(2,3),(3,4),(4,1).
CycleGraph == [n |-> 4, edges |-> {<<1, 2>>, <<2, 3>>, <<3, 4>>, <<1, 4>>}]

SmallGraphs == UNION {{[n |-> k, edges |-> E] : E \in SUBSET Pairs(k)} : k \in 0..MaxN}

\* ------------------------------------------------------------ count_covered_edges
count_covered_edges(g, cover) ==
    Cardinality({e \in g.edges : e[1] \in cover \/ e[2] \in cover})

\* ------------------------------------------------------------ temperature
(* current_temp is a Python float (IEEE-754 double).  It is modelled as      *)
(* s * m * 2^e with s the sign, m the 53-bit mantissa (in limbs) and e the   *)
(* exponent: m >= 2^52 unless e = -1074 (subnormal).  Every operation is     *)
(* computed exactly and rounded to nearest, ties to even, as the hardware    *)
(* does.  The code reads the temperature only through "current_temp > 0" and *)
(* through random.random() < np.exp(d / current_temp).                       *)
FZero == [s |-> 0, m |-> <<0, 0, 0, 0>>, e |-> 0]

\* Limb k of the natural number N (limbs beyond its length are 0).
Digit(N, k) == IF k >= 1 /\ k <= Len(N) THEN N[k] ELSE 0

RECURSIVE Bits(_)
\* Number of bits of x.
Bits(x) == IF x <= 0 THEN 0 ELSE 1 + Bits(x \div 2)

RECURSIVE TopLimb(_, _)
\* Index of the highest non-zero limb among the first k of N (0 if none).
TopLimb(N, k) ==
    IF k = 0 THEN 0 ELSE IF N[k] # 0 THEN k ELSE TopLimb(N, k - 1)

\* Number of bits of N.
BitLen(N) ==
    LET k == TopLimb(N, Len(N))
    IN  IF k = 0 THEN 0 ELSE LimbBits * (k - 1) + Bits(N[k])

\* Bit j of N (bit 0 is the least significant).
Bit(N, j) == (Digit(N, j \div LimbBits + 1) \div 2^(j % LimbBits)) % 2

\* Some bit of N below bit j is 1.
LowBitsSet(N, j) ==
    \/ \E k \in 1..Len(N) : k <= j \div LimbBits /\ N[k] # 0
    \/ Digit(N, j \div LimbBits + 1) % 2^(j % LimbBits) # 0

\* Limb k of N * 2^sh.
ShiftedDigit(N, sh, k) ==
    LET q == sh \div LimbBits
        r == sh % LimbBits
    IN  (Digit(N, k - q) % 2^(LimbBits - r)) * 2^r
            + Digit(N, k - q - 1) \div 2^(LimbBits - r)

\* N * 2^sh as a mantissa (N * 2^sh < 2^53).
ShiftLeft(N, sh) ==
    <<ShiftedDigit(N, sh, 1), ShiftedDigit(N, sh, 2),
      ShiftedDigit(N, sh, 3), ShiftedDigit(N, sh, 4)>>

\* Limb k of N \div 2^sh.
UnshiftedDigit(N, sh, k) ==
    LET q == sh \div LimbBits
        r == sh % LimbBits
    IN  Digit(N, k + q) \div 2^r + (Digit(N, k + q + 1) % 2^r) * 2^(LimbBits - r)

\* N \div 2^sh as a mantissa (N < 2^(53 + sh)).
ShiftRight(N, sh) ==
    <<UnshiftedDigit(N, sh, 1), UnshiftedDigit(N, sh, 2),
      UnshiftedDigit(N, sh, 3), UnshiftedDigit(N, sh, 4)>>

RECURSIVE CarryFrom(_, _, _)
\* The limbs of the number whose limb k holds cols[k], carries propagated.
CarryFrom(cols, k, c) ==
    IF k > Len(cols) THEN <<c>>
    ELSE <<(cols[k] + c) % Limb>> \o CarryFrom(cols, k + 1, (cols[k] + c) \div Limb)

\* m + 1 for a mantissa m.
PlusOne(m) == SubSeq(CarryFrom(<<m[1] + 1, m[2], m[3], m[4]>>, 1, 0), 1, 4)

\* a * b for two mantissas, in 8 limbs.
BigMul(a, b) ==
    CarryFrom(<<a[1] * b[1],
                a[1] * b[2] + a[2] * b[1],
                a[1] * b[3] + a[2] * b[2] + a[3] * b[1],
                a[1] * b[4] + a[2] * b[3] + a[3] * b[2] + a[4] * b[1],
                a[2] * b[4] + a[3] * b[3] + a[4] * b[2],
                a[3] * b[4] + a[4] * b[3],
                a[4] * b[4]>>, 1, 0)

RECURSIVE SubFrom(_, _, _, _)
\* A - B from limb k on, for A >= B.
SubFrom(A, B, k, borrow) ==
    IF k > Len(A) THEN <<>>
    ELSE LET v == A[k] - Digit(B, k) - borrow
         IN  <<(v + Limb) % Limb>> \o SubFrom(A, B, k + 1, IF v < 0 THEN 1 ELSE 0)

RECURSIVE PowTwo(_)
\* 2^j in limbs.
PowTwo(j) == IF j < LimbBits THEN <<2^j>> ELSE <<0>> \o PowTwo(j - LimbBits)

RECURSIVE CompareShifted(_, _, _, _)
\* The sign of A * 2^sh - B, decided on their limbs k, k-1, ..., 1.
CompareShifted(A, sh, B, k) ==
    IF k = 0 THEN 0
    ELSE IF ShiftedDigit(A, sh, k) < Digit(B, k) THEN -1
    ELSE IF ShiftedDigit(A, sh, k) > Digit(B, k) THEN 1
    ELSE CompareShifted(A, sh, B, k - 1)

\* The double nearest to s * N * 2^e (ties to even; subnormal below
\* 2^-1022, 0.0 for what rounds below 2^-1074).
RoundFloat(s, N, e) ==
    LET L == BitLen(N)
        sh == IF L - MantBits >= MinExp - e THEN L - MantBits ELSE MinExp - e
        q == ShiftRight(N, sh)
        up == Bit(N, sh - 1) = 1 /\ (LowBitsSet(N, sh - 1) \/ q[1] % 2 = 1)
        m == IF up THEN PlusOne(q) ELSE q
    IN  IF L = 0 THEN FZero
        ELSE IF sh <= 0 THEN [s |-> s, m |-> ShiftLeft(N, -sh), e |-> e + sh]
        ELSE IF m = <<0, 0, 0, 0>> THEN FZero
        ELSE IF m = <<0, 0, 0, 2^11>>
             THEN [s |-> s, m |-> <<0, 0, 0, 2^10>>, e |-> e + sh + 1]
        ELSE [s |-> s, m |-> m, e |-> e + sh]

\* float(x) for an integer x.
FromInt(x) ==
    LET a == IF x < 0 THEN -x ELSE x
    IN  RoundFloat(IF x < 0 THEN -1 ELSE 1, <<a % Limb, a \div Limb>>, 0)

RECURSIVE DivDigits(_, _, _)
\* The k limbs after the point of r / n (r < n), below them a limb that is 1
\* when the division left a remainder.
DivDigits(r, n, k) ==
    IF k = 0 THEN <<IF r # 0 THEN 1 ELSE 0>>
    ELSE DivDigits((r * Limb) % n, n, k - 1) \o <<(r * Limb) \div n>>

\* The double a / n of two integers, 0 <= a, 0 < n (i / max_iteration; a
\* decimal literal such as 0.9 is the double nearest to 9 / 10).
FDiv(a, n) ==
    RoundFloat(1, DivDigits(a % n, n, 5) \o <<a \div n>>, -6 * LimbBits)

\* The double 1 - x for a double 0 <= x < 1.
FOneMinus(x) ==
    IF x.s = 0 THEN FromInt(1)
    ELSE RoundFloat(1, SubFrom(PowTwo(-x.e), x.m, 1, 0), x.e)

\* The double a * b.
FMul(a, b) ==
    IF a.s = 0 \/ b.s = 0 THEN FZero
    ELSE RoundFloat(a.s * b.s, BigMul(a.m, b.m), a.e + b.e)

\* current_temp > 0
Positive(t) == t.s = 1

\* np.exp(d / t) > 0.0 for d < 0 < t.  The exponential of a double q is
\* positive down to q = -745.1332191019411 (-6554261109157969 * 2^-43) and
\* 0.0 below; the quotient d / t rounds to that double or above exactly when
\* |d| / t is below the midpoint 13108522218315939 * 2^-44 to the next one.
ExpPositive(d, t) ==
    IF d >= 0 \/ t.e > 44 THEN TRUE
    ELSE IF Bits(-d) + 44 - t.e > 8 * LimbBits THEN FALSE
    ELSE CompareShifted(<<-d>>, 44 - t.e,
                        BigMul(<<8355, 10601, 8730, 2980>>, t.m), 8) < 0

\* np.exp(d / t) < 1.0 for d < 0 < t.  The exponential of a double q is 1.0
\* from q = -2^-54 up and below 1.0 under it; the quotient d / t rounds to a
\* double under -2^-54 exactly when |d| / t is above (2^53 + 1) * 2^-107.
ExpBelowOne(d, t) ==
    IF d >= 0 THEN FALSE
    ELSE IF t.e <= 0 THEN TRUE
    ELSE IF t.e > 107 THEN FALSE
    ELSE CompareShifted(<<-d>>, 107 - t.e,
                        BigMul(<<1, 0, 0, 2^11>>, t.m), 9) > 0

\* ------------------------------------------------------------ the calls
\* cooling_rate defaults: 0.9 (improved), 0.95 (baseline).
DefaultCoolingRate(v) ==
    IF v = "improved" THEN [num |-> 9, den |-> 10] ELSE [num |-> 19, den |-> 20]

Call(v, g, k, t, it, es) ==
    [variant |-> v, graph |-> g, Max_Node |-> k, initial_temp |-> t,
     cooling_rate |-> DefaultCoolingRate(v), max_iteration |-> it, early_stop |-> es]

\* Calls on every small graph, with in-range and out-of-range arguments.  The
\* baseline function has no early_stop parameter (0 stands in, never read).
SmallCalls ==
    {Call("improved", g, k, t, it, es) :
        g \in SmallGraphs, k \in (-1)..(MaxN + 1), t \in {-1, 0, DefaultInitialTemp},
        it \in (-1)..MaxIter, es \in 0..MaxEarlyStop}
    \cup
    {Call("baseline", g, k, t, it, 0) :
        g \in SmallGraphs, k \in (-1)..(MaxN + 1), t \in {-1, 0, DefaultInitialTemp},
        it \in (-1)..MaxIter}

\* improved_simulated_annealing_VertexCover(star, 1): default parameters.
StarCall ==
    Call("improved", StarGraph, 1, DefaultInitialTemp, DefaultMaxIteration, DefaultEarlyStop)

\* improved_simulated_annealing_VertexCover(cycle, 2, max_iteration=200).
CycleCall ==
    Call("improved", CycleGraph, 2, DefaultInitialTemp, 200, DefaultEarlyStop)

Calls == SmallCalls \cup {StarCall, CycleCall}

NoResult == [cover |-> {}, covered |-> -1]

Init ==
    /\ \E c \in Calls :
        /\ variant = c.variant
        /\ graph = c.graph
        /\ Max_Node = c.Max_Node
        /\ initial_temp = c.initial_temp
        /\ cooling_rate = c.cooling_rate
        /\ max_iteration = c.max_iteration
        /\ early_stop = c.early_stop
    /\ Max_Node <= graph.n + 1
    /\ pc = "start"
    /\ current_solution = {}
    /\ best_solution = {}
    /\ best_covered = 0
    /\ current_temp = FZero
    /\ no_improvement_iterations = 0
    /\ i = 0
    /\ node_out = 0
    /\ node_in = 0
    /\ new_solution = {}
    /\ new_covered = 0
    /\ last = "none"
    /\ stale = 0
    /\ error = "none"
    /\ result = NoResult

\* ------------------------------------------------------------ before the loop
\* random.sample(nodes, Max_Node): any Max_Node distinct vertices.
Samples(g, k) == {S \in SUBSET nodes(g) : Cardinality(S) = k}

\* random.sample raises ValueError when Max_Node is negative or larger than
\* the population.
SampleRaises(g, k) == k < 0 \/ k > g.n

Initialize ==
    /\ pc = "start"
    /\ ~SampleRaises(graph, Max_Node)
    /\ \E S \in Samples(graph, Max_Node) :
        /\ current_solution' = S
        /\ best_solution' = S
        /\ best_covered' = count_covered_edges(graph, S)
    /\ current_temp' = FromInt(initial_temp)
    /\ no_improvement_iterations' = 0
    /\ pc' = "loop"
    /\ UNCHANGED <<args, i, locals, last, stale, error, result>>

\* Mutant: the sampling error is swallowed and the call goes on with an
\* empty sample.
InitializeSwallows ==
    /\ pc = "start"
    /\ SampleRaises(graph, Max_Node)
    /\ current_temp' = FromInt(initial_temp)
    /\ pc' = "loop"
    /\ UNCHANGED <<args, current_solution, best_solution, best_covered,
                   no_improvement_iterations, i, locals, last, stale, error, result>>

InitializeRaises ==
    /\ pc = "start"
    /\ SampleRaises(graph, Max_Node)
    /\ pc' = "error"
    /\ error' = "ValueError"
    /\ UNCHANGED <<args, search, i, locals, last, stale, result>>

\* ------------------------------------------------------------ the loop
\* Mutant: the early_stop break is never taken.
NeverEarlyStopped == FALSE

\* Mutant: the break is taken one iteration late (> for >=).
EarlyStoppedLate ==
    variant = "improved" /\ no_improvement_iterations > early_stop

\* for i in range(max_iteration), and the early_stop break of the improved
\* function.
EarlyStopped ==
    variant = "improved" /\ no_improvement_iterations >= early_stop

\* Mutant: the loop runs one iteration too many.
InLoopOffByOne == pc = "loop" /\ i <= max_iteration /\ ~EarlyStopped

InLoop == pc = "loop" /\ i < max_iteration /\ ~EarlyStopped

\* Mutant: the members of current_solution are not filtered out.
AllNodesCandidates == nodes(graph)

\* [node for node in nodes if node not in current_solution]
node_in_candidates == nodes(graph) \ current_solution

\* Mutant: min instead of max.
MinDegreeNode(g, cands) ==
    CHOOSE n \in cands : \A m \in cands :
        \/ degree(g, n) < degree(g, m)
        \/ degree(g, n) = degree(g, m) /\ n <= m

\* max(node_in_candidates, key=degree): the first vertex of largest degree.
MaxDegreeNode(g, cands) ==
    CHOOSE n \in cands : \A m \in cands :
        \/ degree(g, n) > degree(g, m)
        \/ degree(g, n) = degree(g, m) /\ n <= m

\* Mutant: node_in is any non-member, as in the baseline function.
UniformNodeIn == node_in_candidates

\* The vertices node_in can be: the degree-biased choice, or any non-member.
NodeInChoices ==
    IF node_in_candidates = {} THEN {}
    ELSE IF variant = "improved" THEN {MaxDegreeNode(graph, node_in_candidates)}
    ELSE node_in_candidates

\* Mutant: node_out is not removed.
SwapKeepsOut(S, out, in) == S \cup {in}

\* new_solution: the copy with node_out removed and node_in added.
Swap(S, out, in) == (S \ {out}) \cup {in}

\* Mutant: the decay term is taken one iteration ahead, 1 - (i + 1) / max_iteration.
CoolingFactorOffByOne ==
    IF variant = "improved"
    THEN FMul(FDiv(cooling_rate.num, cooling_rate.den),
              FOneMinus(FDiv(i + 1, max_iteration)))
    ELSE FDiv(cooling_rate.num, cooling_rate.den)

\* The factor the temperature is multiplied by at the end of iteration i.
\*   improved: cooling_rate * (1 - i / max_iteration)
\*   baseline: cooling_rate
CoolingFactor ==
    IF variant = "improved"
    THEN FMul(FDiv(cooling_rate.num, cooling_rate.den),
              FOneMinus(FDiv(i, max_iteration)))
    ELSE FDiv(cooling_rate.num, cooling_rate.den)

\* The cooling law of each function, applied at the end of iteration i.
\*   improved: current_temp *= cooling_rate * (1 - i / max_iteration)
\*   baseline: current_temp *= cooling_rate
Cool(t) == FMul(t, CoolingFactor)

\* Mutant: the improved test without its "current_temp > 0 and" guard.
CanAcceptUnguarded(d, t) ==
    d > 0 \/ (t.s = -1) \/ (t.s = 1 /\ (d = 0 \/ ExpPositive(d, t)))

\* The acceptance test can come out true for the difference d.
\*   improved: current_temp > 0 and (d > 0 or random.random() < np.exp(d / temp))
\*   baseline: d > 0 or random.random() < np.exp(d / temp)
\* random.random() is in [0, 1), and can be 0.0.
CanAccept(d, t) ==
    IF variant = "improved"
    THEN Positive(t) /\ (d >= 0 \/ ExpPositive(d, t))
    ELSE d > 0 \/ (t.s = -1) \/ (t.s = 1 /\ (d = 0 \/ ExpPositive(d, t)))

\* The acceptance test can come out false for the difference d.
CanReject(d, t) ==
    IF variant = "improved"
    THEN ~Positive(t) \/ (d < 0 /\ ExpBelowOne(d, t))
    ELSE d < 0 /\ t.s = 1 /\ ExpBelowOne(d, t)

\* The baseline test divides by a temperature of zero (ZeroDivisionError).
DividesByZero(d, t) == variant = "baseline" /\ d <= 0 /\ t.s = 0

\* The history counter stale stops counting at StaleCap, one more than the
\* largest early_stop of the enumerated calls.
StaleCap == MaxEarlyStop + 1
Staler(n) == IF n < StaleCap THEN n + 1 ELSE n

\* The move of this iteration: node_out, node_in, new_solution, new_covered.
Propose(out, in) ==
    /\ out \in current_solution
    /\ in \in NodeInChoices
    /\ node_out' = out
    /\ node_in' = in
    /\ new_solution' = Swap(current_solution, out, in)
    /\ new_covered' = count_covered_edges(graph, Swap(current_solution, out, in))

\* Mutant: an accepted candidate that is no improvement is not counted.
AcceptNeverCounts ==
    /\ current_solution' = new_solution'
    /\ IF new_covered' > best_covered
       THEN /\ best_solution' = new_solution'
            /\ best_covered' = new_covered'
       ELSE UNCHANGED <<best_solution, best_covered>>
    /\ no_improvement_iterations' = 0
    /\ stale' = IF new_covered' > best_covered THEN 0 ELSE Staler(stale)

\* Mutant: the best is never updated.
AcceptForgetsBest ==
    /\ current_solution' = new_solution'
    /\ UNCHANGED <<best_solution, best_covered>>
    /\ no_improvement_iterations' =
         IF variant = "improved" THEN no_improvement_iterations + 1
         ELSE no_improvement_iterations
    /\ stale' = Staler(stale)

\* Mutant: the best is overwritten by every accepted candidate.
AcceptOverwritesBest ==
    /\ current_solution' = new_solution'
    /\ best_solution' = new_solution'
    /\ best_covered' = new_covered'
    /\ no_improvement_iterations' =
         IF new_covered' > best_covered THEN 0 ELSE no_improvement_iterations + 1
    /\ stale' = IF new_covered' > best_covered THEN 0 ELSE Staler(stale)

\* Mutant: best_solution is the same set object as current_solution and
\* follows every accepted move, while best_covered keeps its value.
AcceptAliasesBest ==
    /\ current_solution' = new_solution'
    /\ best_solution' = new_solution'
    /\ best_covered' = IF new_covered' > best_covered THEN new_covered' ELSE best_covered
    /\ no_improvement_iterations' =
         IF new_covered' > best_covered THEN 0 ELSE no_improvement_iterations + 1
    /\ stale' = IF new_covered' > best_covered THEN 0 ELSE Staler(stale)

\* Lines 86-92 (improved) and 79-82 (baseline): the accepted branch.
Accept ==
    /\ current_solution' = new_solution'
    /\ IF new_covered' > best_covered
       THEN /\ best_solution' = new_solution'
            /\ best_covered' = new_covered'
            /\ no_improvement_iterations' = 0
            /\ stale' = 0
       ELSE /\ UNCHANGED <<best_solution, best_covered>>
            /\ no_improvement_iterations' =
                 IF variant = "improved" THEN no_improvement_iterations + 1
                 ELSE no_improvement_iterations
            /\ stale' = Staler(stale)

IterateAccept ==
    /\ InLoop
    /\ \E out \in current_solution, in \in NodeInChoices :
        /\ Propose(out, in)
        /\ CanAccept(new_covered' - best_covered, current_temp)
        /\ ~DividesByZero(new_covered' - best_covered, current_temp)
    /\ Accept
    /\ current_temp' = Cool(current_temp)
    /\ i' = i + 1
    /\ last' = "accept"
    /\ UNCHANGED <<args, pc, error, result>>

\* Mutant: a rejected move counts as an iteration without improvement.
IterateRejectCounts ==
    /\ InLoop
    /\ \E out \in current_solution, in \in NodeInChoices :
        /\ Propose(out, in)
        /\ CanReject(new_covered' - best_covered, current_temp)
        /\ ~DividesByZero(new_covered' - best_covered, current_temp)
    /\ current_temp' = Cool(current_temp)
    /\ i' = i + 1
    /\ last' = "reject"
    /\ stale' = Staler(stale)
    /\ no_improvement_iterations' = no_improvement_iterations + 1
    /\ UNCHANGED <<args, pc, current_solution, best_solution, best_covered,
                   error, result>>

IterateReject ==
    /\ InLoop
    /\ \E out \in current_solution, in \in NodeInChoices :
        /\ Propose(out, in)
        /\ CanReject(new_covered' - best_covered, current_temp)
        /\ ~DividesByZero(new_covered' - best_covered, current_temp)
    /\ current_temp' = Cool(current_temp)
    /\ i' = i + 1
    /\ last' = "reject"
    /\ stale' = Staler(stale)
    /\ UNCHANGED <<args, pc, current_solution, best_solution, best_covered,
                   no_improvement_iterations, error, result>>

\* Mutant: the skipped iteration cools the temperature like the others.
IterateSkipCools ==
    /\ InLoop
    /\ variant = "improved"
    /\ node_in_candidates = {}
    /\ \E out \in current_solution : node_out' = out
    /\ current_temp' = Cool(current_temp)
    /\ i' = i + 1
    /\ last' = "skip"
    /\ stale' = Staler(stale)
    /\ UNCHANGED <<args, pc, current_solution, best_solution, best_covered,
                   no_improvement_iterations, node_in, new_solution, new_covered,
                   error, result>>

\* Mutant: the skipped iteration does not advance the index.
IterateSkipStays ==
    /\ InLoop
    /\ variant = "improved"
    /\ node_in_candidates = {}
    /\ \E out \in current_solution : node_out' = out
    /\ last' = "skip"
    /\ stale' = Staler(stale)
    /\ UNCHANGED <<args, pc, search, i, node_in, new_solution, new_covered, error, result>>

\* Lines 65-71 of the improved function: node_out is drawn, no vertex is left
\* to add, "continue" (the cooling statement is skipped with the rest).
IterateSkip ==
    /\ InLoop
    /\ variant = "improved"
    /\ node_in_candidates = {}
    /\ \E out \in current_solution : node_out' = out
    /\ i' = i + 1
    /\ last' = "skip"
    /\ stale' = Staler(stale)
    /\ UNCHANGED <<args, pc, search, node_in, new_solution, new_covered, error, result>>

\* random.choice of an empty list raises IndexError: node_out of an empty
\* current_solution (both functions), node_in of no candidates (baseline,
\* after node_out has been drawn).
ChoiceRaises ==
    \/ current_solution = {}
    \/ variant = "baseline" /\ node_in_candidates = {}

IterateRaises ==
    /\ InLoop
    /\ \/ /\ current_solution = {}
          /\ error' = "IndexError"
          /\ UNCHANGED locals
       \/ /\ current_solution # {}
          /\ ChoiceRaises
          /\ \E out \in current_solution : node_out' = out
          /\ error' = "IndexError"
          /\ UNCHANGED <<node_in, new_solution, new_covered>>
       \/ /\ \E out \in current_solution, in \in NodeInChoices :
               /\ Propose(out, in)
               /\ DividesByZero(new_covered' - best_covered, current_temp)
          /\ error' = "ZeroDivisionError"
    /\ pc' = "error"
    /\ UNCHANGED <<args, search, i, last, stale, result>>

\* return list(best_solution), best_covered
Return ==
    /\ pc = "loop"
    /\ ~InLoop
    /\ result' = [cover |-> best_solution, covered |-> best_covered]
    /\ pc' = "done"
    /\ UNCHANGED <<args, search, i, locals, last, stale, error>>

Next ==
    \/ Initialize
    \/ InitializeRaises
    \/ IterateAccept
    \/ IterateReject
    \/ IterateSkip
    \/ IterateRaises
    \/ Return

Spec == Init /\ [][Next]_vars

\* ------------------------------------------------------------ properties
\* The arguments of the call being run.
call ==
    [variant |-> variant, graph |-> graph, Max_Node |-> Max_Node,
     initial_temp |-> initial_temp, cooling_rate |-> cooling_rate,
     max_iteration |-> max_iteration, early_stop |-> early_stop]

\* The search state exists: the code before the loop has run.
Constructed == pc \in {"loop", "done"}

NumEdges == Cardinality(graph.edges)

\* C1: in the improved function with 1 <= Max_Node <= N, current_solution is
\* a set of exactly Max_Node graph vertices in every state of the run, and
\* the returned cover has exactly Max_Node vertices; the call raises nothing.
C1_CardinalityInvariant ==
    (variant = "improved" /\ Max_Node \in 1..graph.n /\ pc # "start") =>
        /\ Constructed
        /\ current_solution \subseteq nodes(graph)
        /\ Cardinality(current_solution) = Max_Node
        /\ pc = "done" => Cardinality(result.cover) = Max_Node

\* A returned run of two vertices out of three whose last move was accepted.
C1_Witness ==
    /\ variant = "improved" /\ pc = "done"
    /\ graph.n = 3 /\ Max_Node = 2
    /\ last = "accept" /\ i >= 2
    /\ Cardinality(result.cover) = 2

\* C2: best_covered never decreases from one state of the loop to the next,
\* in both functions.
C2_BestCoveredMonotone ==
    [][pc = "loop" => best_covered' >= best_covered]_vars

\* A move to a candidate covering fewer edges than the best was accepted.
C2_Witness ==
    /\ pc = "loop" /\ last = "accept"
    /\ new_covered < best_covered
    /\ current_solution = new_solution

\* C3: best_covered is the number of edges with an endpoint in best_solution
\* in every state of a run, also after later accepted moves, and the returned
\* pair is that cover with that count.
C3_BestIsConsistent ==
    Constructed =>
        /\ best_covered = count_covered_edges(graph, best_solution)
        /\ pc = "done" =>
             /\ result.cover = best_solution
             /\ result.covered = count_covered_edges(graph, result.cover)

\* The walk left the best cover after it was recorded, and the call returned.
C3_Witness ==
    /\ pc = "done" /\ last = "accept"
    /\ current_solution # best_solution
    /\ count_covered_edges(graph, current_solution) < result.covered

\* C4: in the improved function with Max_Node = N (N >= 1) every iteration
\* finds no vertex to add and makes no move, and the call returns the whole
\* vertex set with every edge covered.
C4_FullCover ==
    (variant = "improved" /\ Max_Node = graph.n /\ graph.n >= 1 /\ pc # "start") =>
        /\ Constructed
        /\ last \in {"none", "skip"}
        /\ current_solution = nodes(graph)
        /\ best_covered = NumEdges
        /\ pc = "done" => result = [cover |-> nodes(graph), covered |-> NumEdges]

\* Three skipped iterations on a graph of three vertices with edges.
C4_Witness ==
    /\ variant = "improved" /\ pc = "done"
    /\ graph.n = 3 /\ Max_Node = 3 /\ NumEdges >= 2
    /\ i = 3 /\ last = "skip"
    /\ result.covered = NumEdges

\* C5: with max_iteration = 0 no iteration runs and the call returns the
\* initially sampled Max_Node-subset with its coverage count.
C5_ZeroIterations ==
    (max_iteration = 0 /\ ~SampleRaises(graph, Max_Node) /\ pc # "start") =>
        /\ Constructed
        /\ i = 0 /\ last = "none"
        /\ pc = "done" =>
             /\ result.cover = current_solution
             /\ Cardinality(result.cover) = Max_Node
             /\ result.covered = count_covered_edges(graph, current_solution)

\* A returned call with max_iteration = 0 whose sample covers some edge but
\* not all of them.
C5_Witness ==
    /\ pc = "done" /\ max_iteration = 0
    /\ Max_Node = 1 /\ graph.n = 3
    /\ result.covered >= 1 /\ result.covered < NumEdges

\* The arguments the error taxonomy calls invalid.
InvalidParameter ==
    \/ Max_Node <= 0
    \/ Max_Node > graph.n
    \/ max_iteration <= 0
    \/ initial_temp <= 0

\* C6 as stated: a call with Max_Node <= 0, Max_Node > N, max_iteration <= 0
\* or initial_temp <= 0 fails before any search state is constructed and
\* never returns a result.
C6_Original ==
    InvalidParameter => (~Constructed /\ result = NoResult)

\* C6, amended: a call with Max_Node < 0 or Max_Node > N fails (ValueError of
\* random.sample) before any search state is constructed and before any
\* iteration, and never returns a result.
C6_SampleFailsFast ==
    ((Max_Node < 0 \/ Max_Node > graph.n) /\ pc # "start") =>
        /\ pc = "error" /\ error = "ValueError"
        /\ current_solution = {} /\ best_solution = {}
        /\ i = 0 /\ last = "none"
        /\ result = NoResult

\* A call with Max_Node = N + 1 on a graph with edges has failed.
C6_Witness ==
    /\ pc = "error" /\ error = "ValueError"
    /\ Max_Node = graph.n + 1 /\ NumEdges >= 1
    /\ max_iteration >= 1 /\ initial_temp > 0

\* C7: on the star with center 1 and leaves 2..6, Max_Node = 1 and default
\* parameters, every run of the improved function ends with best_solution =
\* {1} and returns 5 covered edges.
C7_StarConverges ==
    (call = StarCall /\ pc # "start") =>
        /\ Constructed
        /\ i >= 1 => (best_solution = {1} /\ best_covered = 5)
        /\ pc = "done" => result = [cover |-> {1}, covered |-> 5]

\* A run of the star call that started on a leaf, left the center again
\* later, and returned after all 1500 iterations.
C7_Witness ==
    /\ call = StarCall /\ pc = "done"
    /\ i = DefaultMaxIteration
    /\ no_improvement_iterations >= 2
    /\ result.cover = {1}

\* C8 as stated: on the 4-cycle with Max_Node = 2 and max_iteration = 200
\* every run returns 4 covered edges.
C8_Original ==
    (call = CycleCall /\ pc = "done") => result.covered = 4

\* C8, amended: every such run returns 3 or 4 covered edges, and it returns 3
\* only when each of the first early_stop = 150 iterations swapped one
\* adjacent pair for another (each accepted, none an improvement), so that
\* the run ended by early_stop at iteration 150.
C8_CycleResult ==
    (call = CycleCall /\ pc # "start") =>
        /\ Constructed
        /\ best_covered \in {3, 4}
        /\ best_covered = 3 => (no_improvement_iterations = i /\ i <= early_stop)
        /\ pc = "done" =>
             /\ result.covered = best_covered
             /\ result.covered = 3 => i = early_stop

\* A run of the cycle call that returned 3.
C8_Witness ==
    /\ call = CycleCall /\ pc = "done"
    /\ result.covered = 3
    /\ i = DefaultEarlyStop

\* C9 as stated: the improved function never runs more than early_stop
\* consecutive iterations without an improvement of best_covered (checked
\* for the calls whose early_stop the history counter can exceed).
C9_Original ==
    (variant = "improved" /\ early_stop < StaleCap) => stale <= early_stop

\* Some statement of the loop applies in the current state: the loop is
\* over (return), a random.choice raises, the iteration is skipped, or a
\* move is proposed and its acceptance test has an outcome.
LoopCanStep ==
    \/ ~InLoop
    \/ ChoiceRaises
    \/ variant = "improved" /\ node_in_candidates = {}
    \/ \E out \in current_solution, in \in NodeInChoices :
         LET d == count_covered_edges(graph, Swap(current_solution, out, in)) - best_covered
         IN  CanAccept(d, current_temp) \/ CanReject(d, current_temp)
                \/ DividesByZero(d, current_temp)

\* C10: every run ends.  The iteration index never exceeds max_iteration;
\* a call in the loop always has a step to take; each such step either runs
\* one iteration and raises the index by one, or returns, or (outside the
\* improved function with 1 <= Max_Node <= N) raises; so the loop ends after
\* at most max_iteration iterations.  What is returned is (best_solution,
\* best_covered).
C10_Terminates ==
    [][/\ pc = "loop" =>
            \/ pc' = "loop" /\ i' = i + 1
            \/ pc' = "done" /\ i' = i
            \/ pc' = "error" /\ ~(variant = "improved" /\ Max_Node \in 1..graph.n)
       /\ Constructed' =>
            /\ i' <= (IF max_iteration > 0 THEN max_iteration ELSE 0)
            /\ pc' = "loop" => LoopCanStep'
            /\ pc' = "done" =>
                 result' = [cover |-> best_solution', covered |-> best_covered']]_vars

\* A run that used all its iterations, the last one a rejected move, and
\* returned.
C10_Witness ==
    /\ pc = "done" /\ variant = "improved"
    /\ max_iteration = MaxIter /\ i = max_iteration
    /\ last = "reject" /\ initial_temp > 0

\* This step ran a loop iteration that proposed a move.
ProposedStep == pc = "loop" /\ i' = i + 1 /\ last' \in {"accept", "reject"}

\* C11 as stated: a proposed candidate that covers more edges than
\* best_covered is accepted whatever the temperature is, and current_solution,
\* best_solution and best_covered are set to it.
C11_Original ==
    [][(ProposedStep /\ new_covered' > best_covered) =>
            /\ last' = "accept"
            /\ current_solution' = new_solution'
            /\ best_solution' = new_solution'
            /\ best_covered' = new_covered']_vars

\* C12: in the improved function, when the temperature is <= 0 at the
\* acceptance test, a candidate covering no more than best_covered is
\* rejected, nothing is raised, current_solution stays and the loop goes on.
C12_ColdRejects ==
    [][(variant = "improved" /\ InLoop /\ ~Positive(current_temp)
            /\ current_solution # {} /\ node_in_candidates # {}) =>
            /\ pc' = "loop" /\ error' = "none"
            /\ i' = i + 1
            /\ new_covered' <= best_covered =>
                 /\ last' = "reject"
                 /\ current_solution' = current_solution]_vars

\* The star call after its temperature has underflowed to 0.0: the swap of
\* the center for a leaf was rejected.
C12_Witness ==
    /\ call = StarCall /\ pc = "loop"
    /\ current_temp = FZero
    /\ last = "reject" /\ new_covered < best_covered
    /\ current_solution = {1}

\* The state has no vertex to add: the improved loop skips the iteration.
SkipState ==
    variant = "improved" /\ InLoop /\ current_solution # {} /\ node_in_candidates = {}

\* C13 as stated: an iteration with no vertex to add advances the iteration
\* index and applies the cooling law, and leaves current_solution,
\* best_solution, best_covered and the stagnation counter unchanged.
C13_Original ==
    [][SkipState =>
            /\ i' = i + 1
            /\ current_temp' = Cool(current_temp)
            /\ UNCHANGED <<current_solution, best_solution, best_covered,
                           no_improvement_iterations>>]_vars

\* C13, amended: such an iteration advances the iteration index and leaves
\* the temperature as it is ("continue" skips the cooling statement), with
\* current_solution, best_solution, best_covered and the stagnation counter
\* unchanged.
C13_SkipFrame ==
    [][SkipState =>
            /\ i' = i + 1
            /\ last' = "skip"
            /\ current_temp' = current_temp
            /\ UNCHANGED <<current_solution, best_solution, best_covered,
                           no_improvement_iterations, pc>>]_vars

\* Two skipped iterations at the initial temperature of 1500.
C13_Witness ==
    /\ variant = "improved" /\ pc = "loop"
    /\ last = "skip" /\ i >= 2
    /\ initial_temp = DefaultInitialTemp
    /\ current_temp = FromInt(DefaultInitialTemp)
    /\ NumEdges >= 1

\* C14: every accepted move makes the candidate the current solution; when
\* the candidate covers more edges than best_covered, best_solution and
\* best_covered become the candidate and its count, otherwise they stay.  In
\* the improved function the stagnation counter is reset to 0 exactly in the
\* first case and grows by exactly 1 in the second.
C14_AcceptedMove ==
    [][(ProposedStep /\ last' = "accept") =>
            /\ current_solution' = new_solution'
            /\ new_covered' = count_covered_edges(graph, new_solution')
            /\ IF new_covered' > best_covered
               THEN /\ best_solution' = new_solution'
                    /\ best_covered' = new_covered'
                    /\ no_improvement_iterations' = 0
               ELSE /\ UNCHANGED <<best_solution, best_covered>>
                    /\ variant = "improved" =>
                         /\ no_improvement_iterations' = no_improvement_iterations + 1
                         /\ no_improvement_iterations' # 0]_vars

\* An improvement was accepted after the counter had been raised: the
\* counter is back at 0.
C14_Witness ==
    /\ variant = "improved" /\ pc = "loop"
    /\ last = "accept" /\ i >= 2
    /\ no_improvement_iterations = 0
    /\ best_solution = new_solution /\ best_covered = new_covered
    /\ stale = 0

\* C15: with early_stop >= 0 the stagnation counter never exceeds
\* early_stop; in a loop state with no_improvement_iterations >= early_stop
\* the only step is the return of the recorded best, with no further move.
C15_EarlyStop ==
    [][(variant = "improved" /\ early_stop >= 0) =>
            /\ Constructed' => no_improvement_iterations' <= early_stop
            /\ (pc = "loop" /\ no_improvement_iterations >= early_stop) =>
                 /\ pc' = "done"
                 /\ result' = [cover |-> best_solution, covered |-> best_covered]
                 /\ UNCHANGED <<search, i, locals, last>>]_vars

\* A call returned by early_stop = 2 before its iterations were used up.
C15_Witness ==
    /\ variant = "improved" /\ pc = "done"
    /\ early_stop = 2 /\ no_improvement_iterations = 2
    /\ i < max_iteration
    /\ result.cover = best_solution

\* C16: in every iteration of the improved function that proposes a move,
\* node_out is a member of current_solution, node_in is a non-member whose
\* degree is at least that of every non-member, and the candidate is
\* current_solution with node_out removed and node_in added.
C16_ProposedMove ==
    [][(variant = "improved" /\ ProposedStep) =>
            /\ node_out' \in current_solution
            /\ node_in' \in nodes(graph) \ current_solution
            /\ \A m \in nodes(graph) \ current_solution :
                 degree(graph, node_in') >= degree(graph, m)
            /\ new_solution' = (current_solution \ {node_out'}) \cup {node_in'}]_vars

\* A move was proposed where the non-members differ in degree.
C16_Witness ==
    /\ variant = "improved" /\ pc = "loop"
    /\ last = "reject"
    /\ node_in \notin current_solution
    /\ \E m \in nodes(graph) \ current_solution :
         degree(graph, m) < degree(graph, node_in)

\* C17: a rejected move leaves current_solution, best_solution, best_covered
\* and the stagnation counter unchanged; the iteration index advances and
\* the temperature is cooled.
C17_RejectFrame ==
    [][(ProposedStep /\ last' = "reject") =>
            /\ UNCHANGED <<current_solution, best_solution, best_covered,
                           no_improvement_iterations, pc>>
            /\ current_temp' = Cool(current_temp)]_vars

\* A move was rejected after the counter had been raised and the walk had
\* left the best cover.
C17_Witness ==
    /\ variant = "improved" /\ pc = "loop"
    /\ last = "reject"
    /\ no_improvement_iterations >= 1
    /\ current_solution # best_solution
    /\ Positive(current_temp)

\* C18 as stated: a baseline call with Max_Node == N and max_iteration >= 1
\* raises no error and returns the whole vertex set with every edge covered.
C18_Original ==
    (variant = "baseline" /\ Max_Node = graph.n /\ max_iteration >= 1) =>
        /\ pc # "error"
        /\ pc = "done" => result = [cover |-> nodes(graph), covered |-> NumEdges]

\* C19: in every state of a run the number of edges covered by
\* current_solution is at most best_covered, and best_covered is the number
\* of edges covered by best_solution.
C19_BestIsMaximum ==
    Constructed =>
        /\ count_covered_edges(graph, current_solution) <= best_covered
        /\ best_covered = count_covered_edges(graph, best_solution)

\* The walk accepted a worse cover and left the best one.
C19_Witness ==
    /\ pc = "loop" /\ last = "accept"
    /\ current_solution = new_solution
    /\ count_covered_edges(graph, current_solution) < best_covered
    /\ best_solution # current_solution

\* The exact values behind a cooling step: the factor as a fraction of
\* integers, and the unrounded product of the temperature and the factor.
ExactFactorPositive ==
    /\ cooling_rate.num > 0 /\ cooling_rate.den > 0
    /\ variant = "improved" => (max_iteration - i > 0 /\ max_iteration > 0)

\* Bits above the binary point of the unrounded product of t and f (the
\* product is strictly below 2 to that power, and 0 when it has no bits).
ExactProductBits(t, f) == BitLen(BigMul(t.m, f.m)) + t.e + f.e

====
